---- MODULE Spec2Model ----
(***************************************************************************)
(* Model of the comment harvest of spartan-tunguyen/test2:                 *)
(*   GitHubCommentCrawler.collect_comments  (src/src/comment_crawler.py)   *)
(*   RestAPICommentCrawler.collect_comments (src/src/restapi_crawler.py)   *)
(* with the two files a target owns (the items output file and the cursor  *)
(* state file), the credential pool, and the remote service as a           *)
(* nondeterministic environment.  One behaviour is a sequence of           *)
(* invocations of collect_comments on one target, any of which may be      *)
(* interrupted by a crash of the process (the files survive).              *)
(***************************************************************************)
EXTENDS Integers, Sequences, FiniteSets, TLC

\* ------------------------------------------------------------ bounds
MaxTokens == 2      \* largest credential pool explored
MaxLimit  == 3      \* largest `limit` argument explored
NPRs      == 2      \* pull requests the remote source knows
MaxPages  == 2      \* pages the (finite) remote source can deliver
MaxRuns   == 2      \* invocations of collect_comments in one behaviour
MaxTrace  == 3      \* primary fetches recorded in the trace
NTargets  == 2      \* targets (experts) one pipeline run processes
MaxCeiling == 2     \* largest max_concurrent_tasks explored
MaxItems  == 2      \* longest list written in the file-write model
MaxRequests == 3    \* network requests one transport call may send
NLogins   == 4      \* users the remote search knows
MaxUsers  == 2      \* largest max_users explored
NExperts  == 2      \* logins the experts file and the discovery can name
MaxCommentLimit == 3 \* largest comment_limit and largest persisted comment count
NReviews  == 2      \* comments the input file of enrich_comments can hold

\* ------------------------------------------------------------ remote data
\* A pull request p carries review threads; a thread is a sequence of
\* comments; a comment is identified by its comment_url (here a number whose
\* tens digit is the pull request).  Every pull request has one thread; that
\* of pull request 1 holds four comments, the others one.  Comment 14 is
\* written by another user and comment 15 has a body that is_valid_comment
\* rejects.
PRs == 1..NPRs

ThreadsOf(p) == IF p = 1 THEN << <<11, 14, 12, 15>> >> ELSE << <<10 * p + 1>> >>

PrOf(c) == c \div 10

\* comment["author"]["login"].lower() == username.lower()
ByUser(c) == c % 10 # 4

\* is_valid_comment(comment_body)
is_valid_comment(c) == c % 10 # 5

\* A file that does not exist, and a file holding a JSON value.
Absent == [exists |-> FALSE, content |-> <<>>]

File(v) == [exists |-> TRUE, content |-> v]

max_consecutive_errors == 3

None == 0           \* the null cursor (Python None)

Range(s) == {s[i] : i \in DOMAIN s}

NoDup(s) == \A i, j \in DOMAIN s : s[i] = s[j] => i = j

RECURSIVE Flatten(_)
Flatten(ss) == IF ss = <<>> THEN <<>> ELSE Head(ss) \o Flatten(Tail(ss))

\* The pull requests one page of the source lists: none, one, or the last and
\* the first together.
PageSet == {<<>>} \cup {<<p>> : p \in PRs} \cup {<<NPRs, 1>>}

\* ------------------------------------------------------------ state
VARIABLES
    pc,                      \* where the invocation stands
    ntokens,                 \* len(self.github_tokens)
    current_token_index,     \* self.current_token_index
    api_token,               \* token held by self.api
    rest_token,              \* token held by self.rest_crawler
    limit, continue_crawl, get_all_historical, use_rest_api,   \* arguments
    token_rotation_attempts,
    all_comments,            \* primary path: all_comments
    processed_comments,      \* primary path: state["processed_comments"]
    after,                   \* primary path: state["after"]
    existing_comments,       \* fallback path: existing_comments
    rest_comments,           \* fallback path: all_comments
    page,                    \* fallback path: page
    consecutive_errors,      \* fallback path: consecutive_errors
    search_status,           \* fallback path: what the last search request met
    output_file,             \* output_file: Absent or File(list of comments)
    state_file,              \* f"{output_file}.state": Absent or File(<<cursor>>)
    returned,                \* the list handed to the caller
    runs_left,               \* invocations still to be started
    \* history variables (not program state)
    file_at_start,           \* items of output_file when a continuing invocation began
    merged,                  \* items the primary path appended in this invocation
    path,                    \* "gql", "rest" (forced) or "fallback"
    tracing,                 \* whether the trace is recorded
    trace,                   \* <<response, action>> of the first primary fetches
    why,                     \* why the loop of this invocation was left, "none" before
    last,                    \* what the previous invocation returned, and why it ended
    \* pipeline (src/pipeline.py): several targets on one shared crawler
    max_concurrent_tasks,    \* self.max_concurrent_tasks
    active_tasks,            \* self.active_tasks
    stage,                   \* per target: which task of the pipeline holds it
    tpc,                     \* per target: where its collection thread stands
    new_token,               \* per target: local new_token of its rotate_token call
    results,                 \* self.results: the counters and the two lists
    rp,                      \* where run_pipeline stands
    \* one write of a JSON file: with open(path, "w") as f: json.dump(obj, f)
    w_pc,                    \* "idle", "writing" or "crashed"
    w_disk,                  \* the file on disk: Absent or File(text)
    w_old,                   \* the file before the write began
    w_new,                   \* the value being written
    \* one call of a transport function
    t_fn,                    \* "graphql_query" or "search_pull_requests"
    t_pc,                    \* "idle", "call", "sent" or "returned"
    t_token,                 \* whether the client has a token
    t_page,                  \* the page asked for
    t_requests,              \* network requests sent by this call
    t_resp,                  \* the last response
    t_result,                \* what the call returned
    \* find_experts (src/src/expert_finder.py, restapi_expert_finder.py)
    x_pc,                    \* where find_experts stands
    x_path,                  \* "gql", "rest" (forced) or "fallback"
    max_users,               \* argument max_users
    max_round,               \* int(os.getenv("MAX_ROUND"))
    found,                   \* the local list `results`
    fetched,                 \* local fetched
    after_cursor,            \* local after_cursor
    round,                   \* local round
    x_attempts,              \* local token_rotation_attempts
    x_page,                  \* local page of RestAPIExpertFinder.find_experts
    experts,                 \* the list find_experts returned
    \* expert discovery and scheduling of run_pipeline (src/pipeline.py)
    d_pc,                    \* where run_pipeline stands before the tasks start
    experts_file,            \* the experts file: the logins it lists, in order
    existing_experts,        \* existing_experts: the logins read at the start
    new_experts_data,        \* new_experts_data
    expert_usernames,        \* expert_usernames
    experts_to_process,      \* experts_to_process
    comment_limit,           \* argument comment_limit
    comment_count,           \* per login: len() of its persisted comments.json
    \* enrich_comments (src/src/comment_enricher.py)
    e_pc,                    \* where enrich_comments stands
    reviews,                 \* the input file: its comments
    continue_enrichment,     \* argument continue_enrichment
    enriched_file,           \* the output file: Absent or File(list)
    enriched_reviews,        \* enriched_reviews
    remaining_reviews,       \* the part of remaining_reviews not yet handled
    e_returned               \* the list enrich_comments returned

tokens   == <<ntokens, current_token_index, api_token, rest_token>>
argsv    == <<limit, continue_crawl, get_all_historical, use_rest_api>>
gqlvars  == <<token_rotation_attempts, all_comments, processed_comments, after>>
restvars == <<existing_comments, rest_comments, page, consecutive_errors,
              search_status>>
files    == <<output_file, state_file>>
harvest  == <<pc, argsv, gqlvars, restvars, files, returned, runs_left,
              file_at_start, merged, path, tracing, trace, why, last>>
pipev    == <<max_concurrent_tasks, active_tasks, stage, tpc, new_token, results, rp>>
writev   == <<w_pc, w_disk, w_old, w_new>>
transv   == <<t_fn, t_pc, t_token, t_page, t_requests, t_resp, t_result>>
expv     == <<x_pc, x_path, max_users, max_round, found, fetched, after_cursor, round,
              x_attempts, x_page, experts>>
discv    == <<d_pc, experts_file, existing_experts, new_experts_data, expert_usernames,
              experts_to_process, comment_limit, comment_count>>
enrv     == <<e_pc, reviews, continue_enrichment, enriched_file, enriched_reviews,
              remaining_reviews, e_returned>>
stagev   == <<discv, enrv>>
iov      == <<writev, transv, expv, stagev>>
side     == <<pipev, iov>>
vars     == <<tokens, harvest, side>>

Running == {"gql", "save", "rest", "merge"}

\* No invocation has returned to this caller yet.
NoResult == [ret |-> <<>>, why |-> "none"]

\* The reason recorded when a loop is left for the save: r when the loop
\* condition sends control to target "save", none while the loop goes on.
Ended(target, r) == IF target = "save" THEN r ELSE "none"

FileItems(f) == f.content

\* ------------------------------------------------------------ pipeline state
Targets == 1..NTargets

\* No collection thread is running on any target.
NoThreads ==
    /\ tpc = [u \in Targets |-> "none"]
    /\ new_token = [u \in Targets |-> 0]

\* self.results as run_pipeline initialises it (lines 586-594).
NoResults ==
    [experts_processed |-> 0, experts_failed |-> 0,
     successful_experts |-> <<>>, failed_experts |-> <<>>]

\* The pipeline is not running.
PipeQuiet ==
    /\ max_concurrent_tasks = 0
    /\ active_tasks = {}
    /\ stage = [u \in Targets |-> "todo"]
    /\ NoThreads
    /\ results = NoResults
    /\ rp = "idle"

ExpertLogins == 1..NExperts

\* run_pipeline has not been called.
DiscoveryQuiet ==
    /\ d_pc = "idle"
    /\ experts_file = <<>> /\ existing_experts = <<>>
    /\ new_experts_data = <<>> /\ expert_usernames = <<>>
    /\ experts_to_process = {}
    /\ comment_limit = 1
    /\ comment_count = [u \in ExpertLogins |-> 0]

\* enrich_comments is not running.
EnrichQuiet ==
    /\ e_pc = "idle"
    /\ reviews = <<>> /\ continue_enrichment = FALSE
    /\ enriched_file = Absent
    /\ enriched_reviews = <<>> /\ remaining_reviews = <<>>
    /\ e_returned = <<>>

StagesQuiet == DiscoveryQuiet /\ EnrichQuiet

\* find_experts is not running.
ExpertsQuiet ==
    /\ x_pc = "idle" /\ x_path = "gql"
    /\ max_users = 0 /\ max_round = 1
    /\ found = <<>> /\ fetched = 0 /\ after_cursor = None /\ round = 0
    /\ x_attempts = 0 /\ x_page = 1
    /\ experts = <<>>

\* No file is being written.
WriteQuiet ==
    /\ w_pc = "idle" /\ w_disk = Absent /\ w_old = Absent /\ w_new = <<>>

\* No transport call is in progress.
TransportQuiet ==
    /\ t_fn = "none" /\ t_pc = "idle" /\ t_token = TRUE /\ t_page = 1
    /\ t_requests = 0 /\ t_resp = "none" /\ t_result = "none"

\* ------------------------------------------------------------ construction
\* GitHubCommentCrawler.__init__: index 0, both clients on tokens[0].  The
\* pool, `limit` and use_rest_api are configuration: they are chosen here and
\* are the same in every invocation of a behaviour.
InitWith(tr, nruns) ==
    /\ pc = "idle"
    /\ ntokens \in 1..MaxTokens
    /\ current_token_index = 0
    /\ api_token = 0
    /\ rest_token = 0
    /\ limit \in 1..MaxLimit
    /\ use_rest_api \in BOOLEAN
    /\ continue_crawl = TRUE /\ get_all_historical = FALSE
    /\ token_rotation_attempts = 0
    /\ all_comments = <<>> /\ processed_comments = {} /\ after = None
    /\ existing_comments = <<>> /\ rest_comments = <<>>
    /\ page = 1 /\ consecutive_errors = 0 /\ search_status = "none"
    /\ output_file = Absent /\ state_file = Absent
    /\ returned = <<>>
    /\ runs_left = nruns
    /\ file_at_start = <<>> /\ merged = {}
    /\ path = "gql"
    /\ tracing = tr
    /\ trace = <<>>
    /\ why = "none"
    /\ last = NoResult
    /\ PipeQuiet
    /\ WriteQuiet
    /\ TransportQuiet
    /\ ExpertsQuiet
    /\ StagesQuiet

Init == InitWith(FALSE, MaxRuns)

InitTrace == InitWith(TRUE, 1)

InitOne == InitWith(FALSE, 1)

\* ------------------------------------------------------------ credential pool
\* rotate_token: the value returned and the index it leaves.
rotate_token_NoWrap(idx, n) ==
    IF n <= 1 THEN [ok |-> FALSE, index |-> idx]
    ELSE [ok |-> TRUE, index |-> idx + 1]

rotate_token_AlwaysOk(idx, n) == [ok |-> TRUE, index |-> (idx + 1) % n]

rotate_token(idx, n) ==
    IF n <= 1 THEN [ok |-> FALSE, index |-> idx]
    ELSE [ok |-> TRUE, index |-> (idx + 1) % n]

\* token_rotation_attempts += 1.  The counter is only ever compared with
\* max_token_rotations = len(self.github_tokens), so every value above it is
\* kept as ntokens + 1.
Bump(a) == IF a <= ntokens THEN a + 1 ELSE a

\* ------------------------------------------------------------ primary page
\* for comment in thread["comments"]["nodes"]: (lines 301-341).  st is
\* [all |-> all_comments, seen |-> state["processed_comments"]].  The break at
\* line 338 leaves this loop only.
\* The loop with its three tests left out.
ProcessThreadUnfiltered(comments, st, lim, gah) ==
    [all |-> st.all \o comments, seen |-> st.seen \cup Range(comments)]

RECURSIVE ProcessThread(_, _, _, _)
ProcessThread(comments, st, lim, gah) ==
    IF comments = <<>> THEN st
    ELSE LET c == Head(comments) IN
         IF ~ByUser(c) THEN ProcessThread(Tail(comments), st, lim, gah)
         ELSE IF c \in st.seen /\ ~gah THEN ProcessThread(Tail(comments), st, lim, gah)
         ELSE IF ~is_valid_comment(c) THEN ProcessThread(Tail(comments), st, lim, gah)
         ELSE LET st2 == [all |-> Append(st.all, c), seen |-> st.seen \cup {c}] IN
              IF Len(st2.all) >= lim THEN st2
              ELSE ProcessThread(Tail(comments), st2, lim, gah)

\* for thread in review_threads: (line 300)
RECURSIVE ProcessThreads(_, _, _, _)
ProcessThreads(threads, st, lim, gah) ==
    IF threads = <<>> THEN st
    ELSE ProcessThreads(Tail(threads), ProcessThread(Head(threads), st, lim, gah), lim, gah)

\* for pr in nodes: (line 292)
RECURSIVE ProcessNodes(_, _, _, _)
ProcessNodes(nodes, st, lim, gah) ==
    IF nodes = <<>> THEN st
    ELSE ProcessNodes(Tail(nodes), ProcessThreads(ThreadsOf(Head(nodes)), st, lim, gah), lim, gah)

\* ------------------------------------------------------------ fallback page
\* get_comment_with_context: the comments of one pull request that are by the
\* user and valid, in the order the service lists them.
RECURSIVE Keep(_)
Keep(cs) ==
    IF cs = <<>> THEN <<>>
    ELSE IF ByUser(Head(cs)) /\ is_valid_comment(Head(cs)) THEN <<Head(cs)>> \o Keep(Tail(cs))
    ELSE Keep(Tail(cs))

get_comment_with_context(p) == Keep(Flatten(ThreadsOf(p)))

\* for item in items: (lines 294-337)
RECURSIVE ProcessItems(_, _, _, _, _, _)
ProcessItems(items, all, existing, lim, cc, gah) ==
    IF items = <<>> THEN all
    ELSE IF Len(all) >= lim /\ ~gah THEN all
    ELSE IF cc /\ existing # <<>> /\ (\E i \in DOMAIN existing : PrOf(existing[i]) = Head(items))
         THEN ProcessItems(Tail(items), all, existing, lim, cc, gah)
    ELSE ProcessItems(Tail(items), all \o get_comment_with_context(Head(items)),
                      existing, lim, cc, gah)

\* The merge with the existing comments forgotten.
RestMergeNewOnly(existing, all, cc) == all

\* The merge with the new comments put first.
RestMergeNewFirst(existing, all, cc) ==
    IF cc /\ existing # <<>>
    THEN SelectSeq(all, LAMBDA c : c \notin Range(existing)) \o existing
    ELSE all

\* lines 363-369
RestMerge(existing, all, cc) ==
    IF cc /\ existing # <<>>
    THEN existing \o SelectSeq(all, LAMBDA c : c \notin Range(existing))
    ELSE all

\* lines 371-374
Truncate(all, lim, gah) ==
    IF ~gah /\ Len(all) > lim THEN SubSeq(all, 1, lim) ELSE all

\* ------------------------------------------------------------ helpers of the actions
\* One entry per primary fetch: the response, what collect_comments did with
\* it, the cursor the fetch was made with, and the seconds slept
\* (time.sleep) before control goes back to the loop.
Log(resp, act, slept) ==
    trace' = IF tracing /\ Len(trace) < MaxTrace
             THEN Append(trace, [resp |-> resp, act |-> act, after |-> after,
                                 sleep |-> slept, held |-> all_comments])
             ELSE trace

\* Locals of a frame that has been left hold nothing the program reads again.
ResetGql ==
    /\ token_rotation_attempts' = 0
    /\ all_comments' = <<>> /\ processed_comments' = {} /\ after' = None

ResetRest ==
    /\ existing_comments' = <<>> /\ rest_comments' = <<>>
    /\ page' = 1 /\ consecutive_errors' = 0 /\ search_status' = "none"

LoopCheckEnters(all, lim) == "gql"

\* while len(all_comments) < limit: (line 168); leaving it reaches the break of
\* line 352 and the save of line 403.
LoopCheck(all, lim) == IF Len(all) < lim THEN "gql" ELSE "save"

RestBeginThenPrimary(cc, lim, gah) ==
    /\ pc' = "gql"
    /\ returned' = <<>>
    /\ why' = "none"
    /\ existing_comments' = IF cc /\ output_file # Absent THEN output_file.content ELSE <<>>
    /\ rest_comments' = <<>> /\ page' = 1 /\ consecutive_errors' = 0
    /\ search_status' = "none"

\* RestAPICommentCrawler.collect_comments, lines 244-265: load the existing
\* comments, return them at once when they already meet the limit.
RestBegin(cc, lim, gah) ==
    LET loaded == cc /\ output_file # Absent
        ex == IF loaded THEN output_file.content ELSE <<>>
    IN  IF loaded /\ Len(ex) >= lim /\ ~gah
        THEN /\ pc' = "done"
             /\ returned' = ex
             /\ why' = "limit"
             /\ ResetRest
        ELSE /\ pc' = "rest"
             /\ returned' = <<>>
             /\ why' = "none"
             /\ existing_comments' = ex
             /\ rest_comments' = <<>> /\ page' = 1 /\ consecutive_errors' = 0
             /\ search_status' = "none"

\* ------------------------------------------------------------ collect_comments
\* Line 97: the persisted items and cursor are loaded only when continuing,
\* when the output file exists and when no full rescan is asked for.
LoadsExistingAlways(cc, gah) == cc /\ output_file # Absent

LoadsExisting(cc, gah) == cc /\ output_file # Absent /\ ~gah

\* Lines 59-120: entry of GitHubCommentCrawler.collect_comments.
Start ==
    /\ pc \in {"idle", "done"}
    /\ runs_left > 0
    /\ runs_left' = runs_left - 1
    /\ \E cc \in BOOLEAN, gah \in BOOLEAN :
        LET lim == limit  rest == use_rest_api IN
        /\ continue_crawl' = cc
        /\ get_all_historical' = gah
        /\ IF rest
           THEN /\ path' = "rest"
                /\ RestBegin(cc, lim, gah)
                /\ ResetGql
           ELSE LET load == LoadsExisting(cc, gah)
                    all  == IF load THEN output_file.content ELSE <<>>
                IN  /\ path' = "gql"
                    /\ token_rotation_attempts' = 0
                    /\ all_comments' = all
                    /\ processed_comments' = Range(all)
                    /\ after' = IF load /\ state_file # Absent THEN state_file.content[1] ELSE None
                    /\ pc' = LoopCheck(all, lim)
                    /\ why' = Ended(LoopCheck(all, lim), "limit")
                    /\ returned' = <<>>
                    /\ ResetRest
    /\ file_at_start' = IF continue_crawl' /\ ~get_all_historical'
                        THEN FileItems(output_file) ELSE <<>>
    /\ merged' = {}
    /\ trace' = <<>>
    /\ last' = IF pc = "done" THEN [ret |-> returned, why |-> why] ELSE last
    /\ UNCHANGED <<tokens, limit, use_rest_api, files, tracing>>
    /\ UNCHANGED side

\* return self.rest_crawler.collect_comments(...) (lines 192, 225, 250, 281,
\* 371, 391): the primary frame is left with its all_comments unsaved.
Fallback(resp, st) ==
    /\ path' = "fallback"
    /\ RestBegin(continue_crawl, limit, get_all_historical)
    /\ ResetGql
    /\ merged' = merged \cup (Range(st.all) \ Range(all_comments))
    /\ Log(resp, "fallback", 0)
    /\ UNCHANGED <<tokens, argsv, files, runs_left, file_at_start, tracing, last>>

\* A failure handled inside the inner loop: "if self.rotate_token(): ...
\* continue / else: fall back" (lines 176-198, 208-231, 239-256, 270-287).
\* The continue re-enters the inner while, whose condition has not changed.
InnerFailure(resp, newAfter) ==
    LET r == rotate_token(current_token_index, ntokens) IN
    IF r.ok
    THEN /\ current_token_index' = r.index
         /\ api_token' = r.index
         /\ rest_token' = r.index
         /\ token_rotation_attempts' = Bump(token_rotation_attempts)
         /\ after' = newAfter
         /\ pc' = "gql"
         /\ Log(resp, "rotate", 2)
         /\ UNCHANGED <<ntokens, argsv, all_comments, processed_comments, restvars,
                        files, returned, runs_left, file_at_start, merged,
                        path, tracing, why, last>>
    ELSE Fallback(resp, [all |-> all_comments, seen |-> processed_comments])

\* A failure raised as an exception (lines 354-400): the continue re-enters
\* the outer while, which checks the rotation budget.
OuterFailure(resp, st, newAfter) ==
    LET r == rotate_token(current_token_index, ntokens)
        a == Bump(token_rotation_attempts)
    IN
    IF r.ok
    THEN /\ current_token_index' = r.index
         /\ api_token' = r.index
         /\ rest_token' = r.index
         /\ token_rotation_attempts' = a
         /\ all_comments' = st.all
         /\ processed_comments' = st.seen
         /\ merged' = merged \cup (Range(st.all) \ Range(all_comments))
         /\ after' = newAfter
         /\ pc' = IF a <= ntokens THEN LoopCheck(st.all, limit) ELSE "save"
         /\ why' = IF a <= ntokens THEN Ended(LoopCheck(st.all, limit), "limit")
                   ELSE "credentials"
         /\ Log(resp, "rotate", 0)
         /\ UNCHANGED <<ntokens, argsv, restvars, files, returned, runs_left,
                        file_at_start, path, tracing, last>>
    ELSE Fallback(resp, st)

Here == [all |-> all_comments, seen |-> processed_comments]

\* The page the source serves for cursor `after`: page number after + 1.  The
\* source is finite: beyond MaxPages it has nothing, and the last page has no
\* successor.  An empty connection has a null endCursor.
CanServe == after < MaxPages

\* pageInfo.endCursor: the cursor of the page served, and for an empty page
\* either null or the cursor that was asked for.
EndCursors(nodes) == IF nodes = <<>> THEN {None, after} ELSE {after + 1}

\* Line 267: an empty page is suspicious when state["after"], which line 263
\* has just set to the endCursor of the response, is null.
NeverSuspicious(endCursor) == FALSE

Suspicious(endCursor) == endCursor = None

\* Lines 261-349: a response with data.user.pullRequests.
HandlePage(nodes, endCursor, hasNext, resp) ==
    LET st  == ProcessNodes(nodes, Here, limit, get_all_historical)
        new == {st.all[i] : i \in (Len(all_comments) + 1)..Len(st.all)}
    IN
    IF nodes = <<>>
    THEN IF Suspicious(endCursor)
         THEN InnerFailure("empty_page", endCursor)
         ELSE /\ pc' = "save"
              /\ why' = "exhausted"
              /\ after' = endCursor
              /\ Log("empty_page", "stop", 0)
              /\ UNCHANGED <<tokens, argsv, token_rotation_attempts, all_comments,
                             processed_comments, restvars, files, returned, runs_left,
                             file_at_start, merged, path, tracing, last>>
    ELSE /\ all_comments' = st.all
         /\ processed_comments' = st.seen
         /\ after' = endCursor
         /\ merged' = merged \cup new
         /\ Log(resp, "page", 0)
         /\ IF ~hasNext
            THEN /\ pc' = "save"
                 /\ why' = "exhausted"
                 /\ UNCHANGED state_file
            ELSE /\ state_file' = File(<<endCursor>>)
                 /\ pc' = LoopCheck(st.all, limit)
                 /\ why' = Ended(LoopCheck(st.all, limit), "limit")
         /\ UNCHANGED <<tokens, argsv, token_rotation_attempts, restvars, output_file,
                        returned, runs_left, file_at_start, path, tracing, last>>

\* graphql_query returned {"error": "connection_error" | "timeout_error" |
\* "request_error"} (lines 172-198).
GqlNetworkError ==
    /\ pc = "gql"
    /\ InnerFailure("network_error", after)
    /\ UNCHANGED side

\* graphql_query returned {} (HTTP status other than 200), {"error":
\* "general_error"}, or a payload whose data.user is null (lines 236-259).
GqlNoData ==
    /\ pc = "gql"
    /\ InnerFailure("no_data", after)
    /\ UNCHANGED side

\* The payload carries "errors" that mention a rate limit (lines 201-213).
\* Without a credential to rotate to, control falls through to line 236.
GqlRateLimited ==
    /\ pc = "gql"
    /\ IF rotate_token(current_token_index, ntokens).ok
       THEN InnerFailure("rate_limited", after)
       ELSE \/ Fallback("rate_limited", Here)
            \/ /\ CanServe
               /\ \E nodes \in PageSet, hasNext \in BOOLEAN :
                    /\ hasNext => (nodes # <<>> /\ after + 1 < MaxPages)
                    /\ \E ec \in EndCursors(nodes) :
                         HandlePage(nodes, ec, hasNext, "rate_limited")
    /\ UNCHANGED side

\* The payload carries "errors" that are not a rate limit (lines 214-234).
GqlApiError ==
    /\ pc = "gql"
    /\ InnerFailure("api_error", after)
    /\ UNCHANGED side

\* The payload is {"data": null}: line 236 raises AttributeError.
GqlNullData ==
    /\ pc = "gql"
    /\ OuterFailure("null_data", Here, after)
    /\ UNCHANGED side

\* A well-formed page.
GqlPage ==
    /\ pc = "gql"
    /\ \E nodes \in PageSet, hasNext \in BOOLEAN :
        /\ nodes # <<>> => CanServe
        /\ hasNext => (nodes # <<>> /\ after + 1 < MaxPages)
        /\ \E ec \in EndCursors(nodes) : HandlePage(nodes, ec, hasNext, "page")
    /\ UNCHANGED side

\* A page whose first node is malformed (pr["repository"] is null, ...):
\* lines 293-297 raise after state["after"] has been set at line 263.
GqlPageRaises ==
    /\ pc = "gql"
    /\ CanServe
    /\ OuterFailure("bad_node", Here, after + 1)
    /\ UNCHANGED side

\* A page with a successor is processed and the write of the state file
\* (lines 347-348) raises OSError at open(): the file is as it was, and the
\* handler of line 354 runs with state["after"] already advanced.
GqlStateWriteFails ==
    /\ pc = "gql"
    /\ CanServe
    /\ after + 1 < MaxPages
    /\ \E nodes \in PageSet \ {<<>>} :
        OuterFailure("write_error",
                     ProcessNodes(nodes, Here, limit, get_all_historical),
                     after + 1)
    /\ UNCHANGED side

\* Lines 402-407: save all comments and return them.
GqlSave ==
    /\ pc = "save"
    /\ output_file' = File(all_comments)
    /\ returned' = all_comments
    /\ pc' = "done"
    /\ ResetGql
    /\ UNCHANGED <<tokens, argsv, restvars, state_file, runs_left, file_at_start,
                   merged, path, tracing, trace, why, last>>
    /\ UNCHANGED side

\* ------------------------------------------------------------ fallback loop
RestSearchErrorNextPage ==
    /\ pc = "rest"
    /\ consecutive_errors' = consecutive_errors + 1
    /\ search_status' = "unreachable"
    /\ page' = IF page < MaxPages THEN page + 1 ELSE page
    /\ pc' = IF consecutive_errors + 1 >= max_consecutive_errors THEN "merge" ELSE "rest"
    /\ why' = IF consecutive_errors + 1 >= max_consecutive_errors THEN "error" ELSE why
    /\ UNCHANGED <<tokens, argsv, gqlvars, existing_comments, rest_comments,
                   files, returned, runs_left, file_at_start, merged,
                   path, tracing, trace, last>>
    /\ UNCHANGED side

\* search_pull_requests returned {"error": ..., "items": []} (lines 274-281).
RestSearchError ==
    /\ pc = "rest"
    /\ consecutive_errors' = consecutive_errors + 1
    /\ search_status' = "unreachable"
    /\ pc' = IF consecutive_errors + 1 >= max_consecutive_errors THEN "merge" ELSE "rest"
    /\ why' = IF consecutive_errors + 1 >= max_consecutive_errors THEN "error" ELSE why
    /\ UNCHANGED <<tokens, argsv, gqlvars, existing_comments, rest_comments, page,
                   files, returned, runs_left, file_at_start, merged,
                   path, tracing, trace, last>>
    /\ UNCHANGED side

\* search_pull_requests, lines 39-53, answers a status of 403 by sleeping
\* and asking again: what it returns is what the first other status gives.
\* A status of 200 with no items: an empty page (lines 286-290).
RestSearchEmpty ==
    /\ pc = "rest"
    /\ consecutive_errors' = 0
    /\ search_status' = "200"
    /\ pc' = "merge"
    /\ why' = "exhausted"
    /\ UNCHANGED <<tokens, argsv, gqlvars, existing_comments, rest_comments, page,
                   files, returned, runs_left, file_at_start, merged,
                   path, tracing, trace, last>>
    /\ UNCHANGED side

\* A status other than 200 and 403: search_pull_requests returns
\* {"items": []} (lines 49-51), which carries no "error" key, and the loop
\* takes the branch of lines 286-290.
RestSearchBadStatus ==
    /\ pc = "rest"
    /\ consecutive_errors' = 0
    /\ search_status' = "not_200"
    /\ pc' = "merge"
    /\ why' = "exhausted"
    /\ UNCHANGED <<tokens, argsv, gqlvars, existing_comments, rest_comments, page,
                   files, returned, runs_left, file_at_start, merged,
                   path, tracing, trace, last>>
    /\ UNCHANGED side

\* search_pull_requests returned items (lines 292-349).  prs are the items
\* whose pull request can be read; full says len(items) == per_page.  The
\* source is finite: page MaxPages is not full.
RestSearchPage ==
    /\ pc = "rest"
    /\ \E prs \in PageSet, full \in BOOLEAN :
        /\ full => page < MaxPages
        /\ LET all == ProcessItems(prs, rest_comments, existing_comments, limit,
                                   continue_crawl, get_all_historical)
           IN  /\ rest_comments' = all
               /\ IF (Len(all) < limit \/ get_all_historical) /\ full
                  THEN /\ page' = page + 1
                       /\ output_file' = IF all # <<>> THEN File(all) ELSE output_file
                       /\ pc' = "rest"
                       /\ UNCHANGED why
                  ELSE /\ pc' = "merge"
                       /\ why' = IF Len(all) < limit \/ get_all_historical
                                 THEN "exhausted" ELSE "limit"
                       /\ UNCHANGED <<page, output_file>>
    /\ consecutive_errors' = 0
    /\ search_status' = "200"
    /\ UNCHANGED <<tokens, argsv, gqlvars, existing_comments, state_file, returned,
                   runs_left, file_at_start, merged, path, tracing, trace, last>>
    /\ UNCHANGED side

\* An exception inside the try of lines 267-351, raised while the first item
\* of a page is handled (a review comment whose "user" is null makes line 182
\* raise): lines 353-361 save what there is.  The search of that page was
\* answered, so line 284 has reset consecutive_errors.
RestRaises ==
    /\ pc = "rest"
    /\ output_file' = IF rest_comments # <<>> THEN File(rest_comments) ELSE output_file
    /\ pc' = "merge"
    /\ why' = "error"
    /\ search_status' = "200"
    /\ consecutive_errors' = 0
    /\ UNCHANGED <<tokens, argsv, gqlvars, existing_comments, rest_comments, page,
                   state_file, returned, runs_left, file_at_start, merged,
                   path, tracing, trace, last>>
    /\ UNCHANGED side

\* Lines 363-382: merge with the existing comments, truncate, save, return.
RestFinish ==
    /\ pc = "merge"
    /\ LET all == Truncate(RestMerge(existing_comments, rest_comments, continue_crawl),
                           limit, get_all_historical)
       IN  /\ output_file' = File(all)
           /\ returned' = all
    /\ pc' = "done"
    /\ ResetRest
    /\ UNCHANGED <<tokens, argsv, gqlvars, state_file, runs_left, file_at_start,
                   merged, path, tracing, trace, why, last>>
    /\ UNCHANGED side

\* ------------------------------------------------------------ crash
\* The process dies in the middle of an invocation: the files stay, the
\* crawler object, the arguments and the locals are gone (the next invocation
\* builds a new GitHubCommentCrawler).
Crash ==
    /\ pc \in Running
    /\ pc' = "idle"
    /\ current_token_index' = 0 /\ api_token' = 0 /\ rest_token' = 0
    /\ ResetGql
    /\ ResetRest
    /\ returned' = <<>>
    /\ continue_crawl' = TRUE /\ get_all_historical' = FALSE
    /\ file_at_start' = <<>> /\ merged' = {} /\ path' = "gql" /\ trace' = <<>>
    /\ why' = "none" /\ last' = NoResult
    /\ UNCHANGED <<ntokens, limit, use_rest_api, files, runs_left, tracing>>
    /\ UNCHANGED side

Next ==
    \/ Start
    \/ GqlPage
    \/ GqlNetworkError
    \/ GqlNoData
    \/ GqlRateLimited
    \/ GqlApiError
    \/ GqlNullData
    \/ GqlPageRaises
    \/ GqlStateWriteFails
    \/ GqlSave
    \/ RestSearchError
    \/ RestSearchEmpty
    \/ RestSearchBadStatus
    \/ RestSearchPage
    \/ RestRaises
    \/ RestFinish
    \/ Crash

\* Several invocations, crashes included.
Spec == Init /\ [][Next]_vars

\* One invocation, with the trace of its primary fetches recorded.
SpecTrace == InitTrace /\ [][Next]_vars

\* One invocation that is never left standing: the interpreter takes its next
\* step and the remote service answers every request.
FairSpec == InitOne /\ [][Next]_vars /\ WF_vars(Next)

\* ------------------------------------------------------------ pipeline
\* No invocation of collect_comments is in progress and none will start.
HarvestQuiet ==
    /\ pc = "idle"
    /\ limit = 1 /\ use_rest_api = FALSE
    /\ continue_crawl = TRUE /\ get_all_historical = FALSE
    /\ token_rotation_attempts = 0
    /\ all_comments = <<>> /\ processed_comments = {} /\ after = None
    /\ existing_comments = <<>> /\ rest_comments = <<>>
    /\ page = 1 /\ consecutive_errors = 0 /\ search_status = "none"
    /\ output_file = Absent /\ state_file = Absent
    /\ returned = <<>>
    /\ runs_left = 0
    /\ file_at_start = <<>> /\ merged = {}
    /\ path = "gql"
    /\ tracing = FALSE
    /\ trace = <<>>
    /\ why = "none"
    /\ last = NoResult

\* GitHubDataPipeline.__init__ (src/pipeline.py 109-125): one comment crawler
\* for all targets, an empty active set, the ceiling from the environment.
InitPipeline ==
    /\ ntokens \in 1..MaxTokens
    /\ current_token_index = 0 /\ api_token = 0 /\ rest_token = 0
    /\ HarvestQuiet
    /\ max_concurrent_tasks \in 0..MaxCeiling
    /\ active_tasks = {}
    /\ stage = [u \in Targets |-> "todo"]
    /\ NoThreads
    /\ results = NoResults
    /\ rp = "admit"
    /\ WriteQuiet
    /\ TransportQuiet
    /\ ExpertsQuiet
    /\ StagesQuiet

\* The wait of line 673 with the comparison off by one.
HasSlotOrFull == Cardinality(active_tasks) <= max_concurrent_tasks

\* while len(self.active_tasks) >= self.max_concurrent_tasks: sleep (line 673)
HasSlot == Cardinality(active_tasks) < max_concurrent_tasks

InFlight == {"collecting", "enriching", "embedding"}

\* self.results["experts_failed"] += 1; failed_experts.append(username)
\* (lines 411-412, 427-428, 459-460, 473-474, 499-500, 551-552)
Failed(u) ==
    [results EXCEPT !.experts_failed = @ + 1,
                    !.failed_experts = Append(@, u)]

\* self.results["experts_processed"] += 1; successful_experts.append(username)
\* (lines 532-533)
Succeeded(u) ==
    [results EXCEPT !.experts_processed = @ + 1,
                    !.successful_experts = Append(@, u)]

\* run_pipeline, lines 671-689: admit the next target and start its
\* collection task; asyncio.to_thread runs collect_comments of the shared
\* crawler in a thread of its own (lines 270-279).
Admit(u) ==
    /\ rp = "admit"
    /\ stage[u] = "todo"
    /\ HasSlot
    /\ active_tasks' = active_tasks \cup {u}
    /\ stage' = [stage EXCEPT ![u] = "collecting"]
    /\ tpc' = [tpc EXCEPT ![u] = "fetch"]
    /\ UNCHANGED <<tokens, harvest, iov, max_concurrent_tasks, results, rp, new_token>>

\* A fetch of target u's thread: self.api.graphql_query (comment_crawler.py
\* 170); the fallback the thread may enter uses self.rest_crawler.
Fetch(u) ==
    /\ tpc[u] = "fetch"
    /\ tpc' = [tpc EXCEPT ![u] = "wait"]
    /\ UNCHANGED <<tokens, harvest, iov, max_concurrent_tasks, results, rp,
                   active_tasks, stage, new_token>>

\* The response is a page and the harvest goes on to the next one.
FetchOk(u) ==
    /\ tpc[u] = "wait"
    /\ tpc' = [tpc EXCEPT ![u] = "fetch"]
    /\ UNCHANGED <<tokens, harvest, iov, max_concurrent_tasks, results, rp,
                   active_tasks, stage, new_token>>

\* The response is a failure and the thread calls rotate_token
\* (comment_crawler.py 43-49): the shared index moves, new_token is local.
RotateIndex(u) ==
    /\ tpc[u] = "wait"
    /\ rotate_token(current_token_index, ntokens).ok
    /\ current_token_index' = rotate_token(current_token_index, ntokens).index
    /\ new_token' = [new_token EXCEPT ![u] = current_token_index']
    /\ tpc' = [tpc EXCEPT ![u] = "rot_api"]
    /\ UNCHANGED <<ntokens, api_token, rest_token, harvest, iov, max_concurrent_tasks, results, rp,
                   active_tasks, stage>>

\* self.api = GitHubAPI(new_token) (line 52)
RotateApi(u) ==
    /\ tpc[u] = "rot_api"
    /\ api_token' = new_token[u]
    /\ tpc' = [tpc EXCEPT ![u] = "rot_rest"]
    /\ UNCHANGED <<ntokens, current_token_index, rest_token, harvest, iov,
                   max_concurrent_tasks, results, rp, active_tasks, stage, new_token>>

\* self.rest_crawler = RestAPICommentCrawler(new_token) (line 53), return
\* True, and the harvest loop fetches again.
RotateRest(u) ==
    /\ tpc[u] = "rot_rest"
    /\ rest_token' = new_token[u]
    /\ tpc' = [tpc EXCEPT ![u] = "fetch"]
    /\ new_token' = [new_token EXCEPT ![u] = 0]
    /\ UNCHANGED <<ntokens, current_token_index, api_token, harvest, iov,
                   max_concurrent_tasks, results, rp, active_tasks, stage>>

\* create_collection_task, lines 399-435: collect_comments returned (or
\* raised).  With comments the enrichment task is started and the target stays
\* active; without, the target has failed and leaves the active set.
CollectEnds(u) ==
    /\ stage[u] = "collecting"
    /\ tpc[u] = "wait"
    /\ tpc' = [tpc EXCEPT ![u] = "none"]
    /\ \E comments \in BOOLEAN :
        IF comments
        THEN /\ stage' = [stage EXCEPT ![u] = "enriching"]
             /\ active_tasks' = active_tasks \cup {u}
             /\ UNCHANGED results
        ELSE /\ stage' = [stage EXCEPT ![u] = "failed"]
             /\ active_tasks' = active_tasks \ {u}
             /\ results' = Failed(u)
    /\ UNCHANGED <<tokens, harvest, iov, max_concurrent_tasks, rp, new_token>>

\* create_enrichment_task, lines 448-481.
EnrichEnds(u) ==
    /\ stage[u] = "enriching"
    /\ \E enriched \in BOOLEAN :
        IF enriched
        THEN /\ stage' = [stage EXCEPT ![u] = "embedding"]
             /\ UNCHANGED <<active_tasks, results>>
        ELSE /\ stage' = [stage EXCEPT ![u] = "failed"]
             /\ active_tasks' = active_tasks \ {u}
             /\ results' = Failed(u)
    /\ UNCHANGED <<tokens, harvest, iov, max_concurrent_tasks, rp, tpc, new_token>>

\* create_embedding_task, lines 491-558: the finally clause discards the
\* target whatever the outcome.
EmbedEnds(u) ==
    /\ stage[u] = "embedding"
    /\ \E ok \in BOOLEAN :
        /\ stage' = [stage EXCEPT ![u] = IF ok THEN "finished" ELSE "failed"]
        /\ results' = IF ok THEN Succeeded(u) ELSE Failed(u)
    /\ active_tasks' = active_tasks \ {u}
    /\ UNCHANGED <<tokens, harvest, iov, max_concurrent_tasks, rp, tpc, new_token>>

\* The waits of run_pipeline (lines 697-717): while self.collection_tasks,
\* while self.enrichment_tasks, while self.embedding_tasks.  A task is in its
\* dictionary from its creation to its finally clause.
NoWait(st) == TRUE

NoneAt(st) == \A u \in Targets : stage[u] # st

\* The for loop of line 671 has admitted every target and no collection
\* task is left.
CollectionsDone ==
    /\ rp = "admit"
    /\ NoneAt("todo")
    /\ NoneAt("collecting")
    /\ rp' = "enrichments"
    /\ UNCHANGED <<tokens, harvest, iov, max_concurrent_tasks, active_tasks, stage,
                   tpc, new_token, results>>

EnrichmentsDone ==
    /\ rp = "enrichments"
    /\ NoneAt("enriching")
    /\ rp' = "embeddings"
    /\ UNCHANGED <<tokens, harvest, iov, max_concurrent_tasks, active_tasks, stage,
                   tpc, new_token, results>>

\* No embedding task is left: run_pipeline saves and returns self.results
\* (lines 719-738).
EmbeddingsDone ==
    /\ rp = "embeddings"
    /\ NoneAt("embedding")
    /\ rp' = "returned"
    /\ UNCHANGED <<tokens, harvest, iov, max_concurrent_tasks, active_tasks, stage,
                   tpc, new_token, results>>

NextPipeline ==
    \/ \E u \in Targets : Admit(u)
    \/ \E u \in Targets : Fetch(u)
    \/ \E u \in Targets : FetchOk(u)
    \/ \E u \in Targets : RotateIndex(u)
    \/ \E u \in Targets : RotateApi(u)
    \/ \E u \in Targets : RotateRest(u)
    \/ \E u \in Targets : CollectEnds(u)
    \/ \E u \in Targets : EnrichEnds(u)
    \/ \E u \in Targets : EmbedEnds(u)
    \/ CollectionsDone
    \/ EnrichmentsDone
    \/ EmbeddingsDone

SpecPipeline == InitPipeline /\ [][NextPipeline]_vars

\* ------------------------------------------------------------ file write
\* with open(path, "w") as f: json.dump(obj, f)   (comment_crawler.py 347-349
\* and 402-404, restapi_crawler.py 345-349, 358-361, 377-380).  open(..., "w")
\* truncates the file; json.dump writes the text piece by piece; the pieces
\* reach the disk in order.  A crash may come between any two of them.
Items == 1..MaxItems

Lists == UNION {[1..n -> Items] : n \in 0..MaxItems}

\* json.dump of a list: the text, one token per element.
Encode(v) == <<"[">> \o v \o <<"]">>

\* json.load accepts a text only if it is the complete text of a value.
Readable(f) == f.exists /\ \E v \in Lists : f.content = Encode(v)

OnlyCrawler ==
    /\ ntokens = 1
    /\ current_token_index = 0 /\ api_token = 0 /\ rest_token = 0
    /\ HarvestQuiet
    /\ PipeQuiet

InitWrite ==
    /\ OnlyCrawler
    /\ TransportQuiet
    /\ ExpertsQuiet
    /\ StagesQuiet
    /\ WriteQuiet

nonwrite == <<tokens, harvest, pipev, transv, expv, stagev>>

\* open(path, "w"): the file exists and is empty.
WOpen ==
    /\ w_pc = "idle"
    /\ \E v \in Lists : w_new' = v
    /\ w_old' = w_disk
    /\ w_disk' = File(<<>>)
    /\ w_pc' = "writing"
    /\ UNCHANGED nonwrite

\* One more piece of the text reaches the disk.
WChunk ==
    /\ w_pc = "writing"
    /\ Len(w_disk.content) < Len(Encode(w_new))
    /\ w_disk' = File(SubSeq(Encode(w_new), 1, Len(w_disk.content) + 1))
    /\ UNCHANGED <<w_pc, w_old, w_new, nonwrite>>

\* The with block ends: the file is closed with the whole text in it.
WClose ==
    /\ w_pc = "writing"
    /\ w_disk = File(Encode(w_new))
    /\ w_pc' = "idle"
    /\ UNCHANGED <<w_disk, w_old, w_new, nonwrite>>

\* The process dies during the write.
WCrash ==
    /\ w_pc = "writing"
    /\ w_pc' = "crashed"
    /\ UNCHANGED <<w_disk, w_old, w_new, nonwrite>>

\* A new process starts; the file is what the crash left.
WRestart ==
    /\ w_pc = "crashed"
    /\ w_pc' = "idle"
    /\ UNCHANGED <<w_disk, w_old, w_new, nonwrite>>

NextWrite == WOpen \/ WChunk \/ WClose \/ WCrash \/ WRestart

SpecWrite == InitWrite /\ [][NextWrite]_vars

\* ------------------------------------------------------------ transport
\* One call of GitHubAPI.graphql_query (github_api.py 41-79) or of
\* RestAPICommentCrawler.search_pull_requests (restapi_crawler.py 36-66).
\* response.status_code, as text.
Statuses == {"200", "403", "500"}

Raised == {"ConnectionError", "Timeout", "RequestException"}

TransportFns == {"graphql_query", "search_pull_requests"}

InitTransport ==
    /\ OnlyCrawler
    /\ WriteQuiet
    /\ TransportQuiet
    /\ ExpertsQuiet
    /\ StagesQuiet

nontransport == <<tokens, harvest, pipev, writev, expv, stagev>>

\* The function is called for a page.
TCall ==
    /\ t_pc = "idle"
    /\ \E fn \in TransportFns, tok \in BOOLEAN, pg \in 1..MaxPages :
        /\ t_fn' = fn /\ t_token' = tok /\ t_page' = pg
    /\ t_pc' = "call"
    /\ t_requests' = 0 /\ t_resp' = "none" /\ t_result' = "none"
    /\ UNCHANGED nontransport

\* graphql_query without a token returns {} (lines 52-54); otherwise
\* requests.post / requests.get sends one request.
TSend ==
    /\ t_pc = "call"
    /\ IF t_fn = "graphql_query" /\ ~t_token
       THEN /\ t_pc' = "returned" /\ t_result' = "{}"
            /\ UNCHANGED <<t_requests, t_resp>>
       ELSE /\ t_requests < MaxRequests
            /\ t_requests' = t_requests + 1
            /\ t_pc' = "sent"
            /\ UNCHANGED <<t_resp, t_result>>
    /\ UNCHANGED <<t_fn, t_token, t_page, nontransport>>

\* What graphql_query returns for a response (lines 63-79).
GraphqlResult(r) ==
    CASE r = "200" -> "json"
      [] r \in Statuses \ {"200"} -> "{}"
      [] r = "ConnectionError" -> "connection_error"
      [] r = "Timeout" -> "timeout_error"
      [] r = "RequestException" -> "request_error"

\* What search_pull_requests returns for a response other than 403
\* (lines 49-66).
SearchResult(r) ==
    CASE r = "200" -> "json"
      [] r \in Statuses \ {"200", "403"} -> "no_items"
      [] r = "ConnectionError" -> "connection_error"
      [] r = "Timeout" -> "timeout_error"
      [] r = "RequestException" -> "request_error"

\* The response arrives, or the request raises.  search_pull_requests
\* answers 403 by sleeping and calling itself (lines 42-47).
TRespond ==
    /\ t_pc = "sent"
    /\ \E r \in Statuses \cup Raised :
        /\ t_resp' = r
        /\ IF t_fn = "search_pull_requests" /\ r = "403"
           THEN /\ t_pc' = "call"
                /\ UNCHANGED t_result
           ELSE /\ t_pc' = "returned"
                /\ t_result' = IF t_fn = "graphql_query"
                               THEN GraphqlResult(r) ELSE SearchResult(r)
    /\ UNCHANGED <<t_fn, t_token, t_page, t_requests, nontransport>>

\* The caller has the result.
TReturn ==
    /\ t_pc = "returned"
    /\ t_pc' = "idle"
    /\ UNCHANGED <<t_fn, t_token, t_page, t_requests, t_resp, t_result, nontransport>>

NextTransport == TCall \/ TSend \/ TRespond \/ TReturn

SpecTransport == InitTransport /\ [][NextTransport]_vars

\* ------------------------------------------------------------ find_experts
\* GitHubExpertFinder.find_experts (src/src/expert_finder.py 58-226) and
\* RestAPIExpertFinder.find_experts (src/src/restapi_expert_finder.py
\* 117-196).  A user is its login; the remote service knows NLogins of them.
Logins == 1..NLogins

\* contributionsCollection.pullRequestReviewContributions.totalCount of a
\* user, and "pr_reviews" of get_user_details.
Reviews(l) == IF l = NLogins THEN 0 ELSE IF l = 1 THEN 5 ELSE 10 * l

\* The scoring formula (expert_finder.py 260-265, restapi_expert_finder.py
\* 172-177) for a user with one follower, no stars and no pull request.
Score(l) == (1 * 1 + 2 * 0 + 3 * 0) * 4 * Reviews(l)

\* A page of the user search: what the service lists, in its order.  A page
\* lists a user once; the service may list a user on more than one page.
UserPages ==
    {<<>>} \cup {<<l>> : l \in Logins}
           \cup {<<p[1], p[2]>> : p \in {q \in Logins \X Logins : q[1] # q[2]}}

\* The returned list as it stands, without the sort.
Unsorted(rs) == rs

\* Insert login l in a list that is ordered by non-increasing score, after
\* the entries whose score is not lower (sorted is stable).
RECURSIVE InsertByScore(_, _)
InsertByScore(l, rs) ==
    IF rs = <<>> THEN <<l>>
    ELSE IF Score(Head(rs)) >= Score(l) THEN <<Head(rs)>> \o InsertByScore(l, Tail(rs))
    ELSE <<l>> \o rs

RECURSIVE SortAll(_, _)
SortAll(rs, acc) ==
    IF rs = <<>> THEN acc ELSE SortAll(Tail(rs), InsertByScore(Head(rs), acc))

\* sorted(results, key=lambda x: x['score'], reverse=True)
SortedByScore(rs) == SortAll(rs, <<>>)

\* for user in users: (expert_finder.py 166-178).  st is
\* [results |-> results, fetched |-> fetched].
RECURSIVE ProcessUsers(_, _, _)
ProcessUsers(users, st, mx) ==
    IF users = <<>> THEN st
    ELSE IF Score(Head(users)) = 0 THEN ProcessUsers(Tail(users), st, mx)
    ELSE LET st2 == [results |-> Append(st.results, Head(users)),
                     fetched |-> st.fetched + 1]
         IN  IF st2.fetched >= mx THEN st2 ELSE ProcessUsers(Tail(users), st2, mx)

\* for user in users: (restapi_expert_finder.py 145-187)
RECURSIVE RestProcessUsers(_, _, _)
RestProcessUsers(users, rs, mx) ==
    IF users = <<>> THEN rs
    ELSE IF \E i \in DOMAIN rs : rs[i] = Head(users)
         THEN RestProcessUsers(Tail(users), rs, mx)
    ELSE IF Reviews(Head(users)) < 10 THEN RestProcessUsers(Tail(users), rs, mx)
    ELSE LET rs2 == Append(rs, Head(users))
         IN  IF Len(rs2) >= mx THEN rs2 ELSE RestProcessUsers(Tail(users), rs2, mx)

InitExperts ==
    /\ ntokens \in 1..MaxTokens
    /\ current_token_index = 0 /\ api_token = 0 /\ rest_token = 0
    /\ HarvestQuiet
    /\ PipeQuiet
    /\ WriteQuiet
    /\ TransportQuiet
    /\ StagesQuiet
    /\ x_pc = "idle" /\ x_path = "gql"
    /\ max_users \in 0..MaxUsers
    /\ max_round \in 1..MaxPages
    /\ found = <<>> /\ fetched = 0 /\ after_cursor = None /\ round = 0
    /\ x_attempts = 0 /\ x_page = 1
    /\ experts = <<>>

nonexperts == <<harvest, pipev, writev, transv, stagev>>

\* return sorted(results, ...) (expert_finder.py 191, restapi_expert_finder.py 196)
XReturn(rs) ==
    /\ x_pc' = "done"
    /\ experts' = SortedByScore(rs)

\* RestAPIExpertFinder.find_experts, lines 128-133, entered with new locals.
XRestBegin ==
    /\ found' = <<>> /\ x_page' = 1
    /\ IF 0 < max_users
       THEN x_pc' = "rest" /\ experts' = <<>>
       ELSE XReturn(<<>>)

\* The locals of the try block (expert_finder.py 81-84).
XTryBegin ==
    /\ found' = <<>> /\ fetched' = 0 /\ after_cursor' = None /\ round' = 0

\* find_experts is called (lines 58-84).
XStart ==
    /\ x_pc = "idle"
    /\ \E rest \in BOOLEAN :
        IF rest
        THEN /\ x_path' = "rest"
             /\ XRestBegin
             /\ UNCHANGED <<fetched, after_cursor, round>>
        ELSE /\ x_path' = "gql"
             /\ XTryBegin
             /\ IF 0 < max_users
                THEN x_pc' = "gql" /\ experts' = <<>>
                ELSE XReturn(<<>>)
             /\ UNCHANGED x_page
    /\ x_attempts' = 0
    /\ UNCHANGED <<tokens, max_users, max_round, nonexperts>>

\* return self.rest_finder.find_experts(language, max_users)
\* (lines 152, 162, 206, 219, 226)
XFallback ==
    /\ x_path' = "fallback"
    /\ XRestBegin
    /\ UNCHANGED <<tokens, max_users, max_round, fetched, after_cursor, round,
                   x_attempts, nonexperts>>

\* graphql_query returned an error or no data (lines 139-162): rotate and
\* fetch again with the same locals, or fall back.
XGqlFailure ==
    /\ x_pc = "gql"
    /\ LET r == rotate_token(current_token_index, ntokens) IN
       IF r.ok
       THEN /\ current_token_index' = r.index
            /\ api_token' = r.index
            /\ rest_token' = r.index
            /\ x_attempts' = Bump(x_attempts)
            /\ UNCHANGED <<ntokens, x_pc, x_path, max_users, max_round, found, fetched,
                           after_cursor, round, x_page, experts, nonexperts>>
       ELSE XFallback

\* The payload has no data.search (line 164 raises): the handler of lines
\* 192-222 rotates and the outer loop starts the try block again, or, with
\* the budget spent or nothing to rotate to, the fallback takes over.
XGqlRaises ==
    /\ x_pc = "gql"
    /\ LET r == rotate_token(current_token_index, ntokens)
           a == Bump(x_attempts)
       IN
       IF r.ok /\ a <= ntokens
       THEN /\ current_token_index' = r.index
            /\ api_token' = r.index
            /\ rest_token' = r.index
            /\ x_attempts' = a
            /\ XTryBegin
            /\ UNCHANGED <<ntokens, x_pc, x_path, max_users, max_round, x_page,
                           experts, nonexperts>>
       ELSE IF r.ok
       THEN /\ current_token_index' = r.index
            /\ api_token' = r.index
            /\ rest_token' = r.index
            /\ x_path' = "fallback"
            /\ XRestBegin
            /\ x_attempts' = a
            /\ UNCHANGED <<ntokens, max_users, max_round, fetched, after_cursor, round,
                           nonexperts>>
       ELSE XFallback

\* A page of the search (lines 164-187).  The source is finite: it has
\* MaxPages pages and the last one has no successor.
XGqlPage ==
    /\ x_pc = "gql"
    /\ \E users \in UserPages, hasNext \in BOOLEAN :
        /\ users # <<>> => after_cursor < MaxPages
        /\ hasNext => (users # <<>> /\ after_cursor + 1 < MaxPages)
        /\ LET st == ProcessUsers(users, [results |-> found, fetched |-> fetched],
                                  max_users)
           IN  /\ found' = st.results
               /\ fetched' = st.fetched
               /\ IF ~hasNext
                  THEN /\ XReturn(st.results)
                       /\ UNCHANGED <<after_cursor, round>>
                  ELSE /\ after_cursor' = after_cursor + 1
                       /\ round' = round + 1
                       /\ IF round + 1 >= max_round \/ ~(st.fetched < max_users)
                          THEN XReturn(st.results)
                          ELSE UNCHANGED <<x_pc, experts>>
    /\ UNCHANGED <<tokens, x_path, max_users, max_round, x_attempts, x_page, nonexperts>>

\* search_users returned no user, or [] for a status other than 200
\* (restapi_expert_finder.py 137-141).
XRestEmpty ==
    /\ x_pc = "rest"
    /\ XReturn(found)
    /\ UNCHANGED <<tokens, x_path, max_users, max_round, found, fetched, after_cursor,
                   round, x_attempts, x_page, nonexperts>>

\* search_users returned users (restapi_expert_finder.py 143-193).
XRestPage ==
    /\ x_pc = "rest"
    /\ x_page <= MaxPages
    /\ \E users \in UserPages \ {<<>>} :
        LET rs == RestProcessUsers(users, found, max_users) IN
        /\ found' = rs
        /\ x_page' = x_page + 1
        /\ IF Len(rs) < max_users
           THEN UNCHANGED <<x_pc, experts>>
           ELSE XReturn(rs)
    /\ UNCHANGED <<tokens, x_path, max_users, max_round, fetched, after_cursor, round,
                   x_attempts, nonexperts>>

NextExperts ==
    \/ XStart
    \/ XGqlFailure
    \/ XGqlRaises
    \/ XGqlPage
    \/ XRestEmpty
    \/ XRestPage

SpecExperts == InitExperts /\ [][NextExperts]_vars

\* ------------------------------------------------------------ expert discovery
\* Lists of logins: a persisted experts file lists a login once; the list
\* find_experts returns may name a login twice (its primary path does not
\* look at the logins it holds).
LoginLists ==
    {<<>>} \cup {<<u>> : u \in ExpertLogins}
           \cup {<<p[1], p[2]>> : p \in ExpertLogins \X ExpertLogins}

\* {expert["login"]: expert for expert in experts_list} (line 176): the
\* keys of the dictionary, in insertion order.
RECURSIVE Keys(_, _)
Keys(list, acc) ==
    IF list = <<>> THEN acc
    ELSE Keys(Tail(list), IF Head(list) \in Range(acc) THEN acc
                          ELSE Append(acc, Head(list)))

\* Lines 640-643: the existing experts whose login is not in the new list.
RECURSIVE NotIn(_, _)
NotIn(list, logins) ==
    IF list = <<>> THEN <<>>
    ELSE IF Head(list) \in logins THEN NotIn(Tail(list), logins)
    ELSE <<Head(list)>> \o NotIn(Tail(list), logins)

\* Line 664: comment_count < comment_limit / 2, a true division.
NeedsRecrawl(count, lim) == 2 * count < lim

InitDiscovery ==
    /\ ntokens = 1
    /\ current_token_index = 0 /\ api_token = 0 /\ rest_token = 0
    /\ HarvestQuiet
    /\ PipeQuiet
    /\ WriteQuiet
    /\ TransportQuiet
    /\ ExpertsQuiet
    /\ EnrichQuiet
    /\ d_pc = "idle"
    /\ experts_file \in {l \in LoginLists : NoDup(l)}
    /\ existing_experts = <<>>
    /\ new_experts_data = <<>> /\ expert_usernames = <<>>
    /\ experts_to_process = {}
    /\ comment_limit \in 1..MaxCommentLimit
    /\ comment_count \in [ExpertLogins -> 0..MaxCommentLimit]

nondiscovery == <<tokens, harvest, pipev, writev, transv, expv, enrv>>

\* run_pipeline, lines 596-598: existing_experts = get_existing_experts().
DReadExisting ==
    /\ d_pc = "idle"
    /\ existing_experts' = Keys(experts_file, <<>>)
    /\ d_pc' = "read"
    /\ UNCHANGED <<experts_file, new_experts_data, expert_usernames,
                   experts_to_process, comment_limit, comment_count, nondiscovery>>

\* Lines 600-627: EXPERT_USERNAMES or EXPERT_LIST_FILE names the experts; no
\* discovery is made and the experts file is left alone.
DUseList ==
    /\ d_pc = "read"
    /\ \E names \in LoginLists \ {<<>>} :
        expert_usernames' = names
    /\ d_pc' = "chosen"
    /\ UNCHANGED <<experts_file, existing_experts, new_experts_data,
                   experts_to_process, comment_limit, comment_count, nondiscovery>>

\* GitHubDataPipeline.find_experts, lines 208-241: the list found is written
\* to the experts file (lines 233-235) and returned.
DFindExperts ==
    /\ d_pc = "read"
    /\ \E found_now \in LoginLists :
        /\ new_experts_data' = found_now
        /\ experts_file' = found_now
    /\ d_pc' = "found"
    /\ UNCHANGED <<existing_experts, expert_usernames, experts_to_process,
                   comment_limit, comment_count, nondiscovery>>

\* Lines 629-648: the new logins become the current list; when something was
\* found, the new list followed by the existing experts it does not name is
\* written to the experts file.
DSaveMerged ==
    /\ d_pc = "found"
    /\ expert_usernames' = new_experts_data
    /\ experts_file' = IF new_experts_data # <<>>
                       THEN new_experts_data
                            \o NotIn(existing_experts, Range(new_experts_data))
                       ELSE experts_file
    /\ d_pc' = "chosen"
    /\ UNCHANGED <<existing_experts, new_experts_data, experts_to_process,
                   comment_limit, comment_count, nondiscovery>>

\* Lines 650-666: the current list, and the existing experts outside it whose
\* persisted comments are too few.
DSchedule ==
    /\ d_pc = "chosen"
    /\ experts_to_process' =
         Range(expert_usernames)
         \cup {u \in Range(existing_experts) :
                 /\ u \notin Range(expert_usernames)
                 /\ NeedsRecrawl(comment_count[u], comment_limit)}
    /\ d_pc' = "scheduled"
    /\ UNCHANGED <<experts_file, existing_experts, new_experts_data, expert_usernames,
                   comment_limit, comment_count, nondiscovery>>

NextDiscovery ==
    \/ DReadExisting
    \/ DUseList
    \/ DFindExperts
    \/ DSaveMerged
    \/ DSchedule

SpecDiscovery == InitDiscovery /\ [][NextDiscovery]_vars

\* ------------------------------------------------------------ enrich_comments
\* A comment of the input file is its comment_url; an entry of the output
\* list is the comment with or without the classification keys.
ReviewUrls == 1..NReviews

Entry(url, classified) == [url |-> url, classified |-> classified]

InputFiles ==
    {<<>>} \cup {<<r>> : r \in ReviewUrls}
           \cup {<<p[1], p[2]>> : p \in {q \in ReviewUrls \X ReviewUrls : q[1] # q[2]}}

\* What an earlier call can have left in the output file.
OutputFiles ==
    {Absent, File(<<>>)}
    \cup {File(<<Entry(r, c)>>) : r \in ReviewUrls, c \in BOOLEAN}

\* Lines 78-79: the comments whose comment_url is not among the enriched ones.
RECURSIVE Remaining(_, _)
Remaining(rs, done) ==
    IF rs = <<>> THEN <<>>
    ELSE IF \E i \in DOMAIN done : done[i].url = Head(rs)
         THEN Remaining(Tail(rs), done)
    ELSE <<Head(rs)>> \o Remaining(Tail(rs), done)

InitEnrich ==
    /\ ntokens = 1
    /\ current_token_index = 0 /\ api_token = 0 /\ rest_token = 0
    /\ HarvestQuiet
    /\ PipeQuiet
    /\ WriteQuiet
    /\ TransportQuiet
    /\ ExpertsQuiet
    /\ DiscoveryQuiet
    /\ e_pc = "idle"
    /\ reviews \in InputFiles
    /\ continue_enrichment \in BOOLEAN
    /\ enriched_file \in OutputFiles
    /\ enriched_reviews = <<>> /\ remaining_reviews = <<>>
    /\ e_returned = <<>>

nonenrich == <<tokens, harvest, pipev, writev, transv, expv, discv>>

\* Lines 57-64: the input file cannot be read; [] is returned.
EInputUnreadable ==
    /\ e_pc = "idle"
    /\ e_returned' = <<>>
    /\ e_pc' = "unreadable"
    /\ UNCHANGED <<reviews, continue_enrichment, enriched_file, enriched_reviews,
                   remaining_reviews, nonenrich>>

\* Lines 57-81: read the input, load the output of an earlier call when
\* continuing, keep the comments not enriched yet.
EStart ==
    /\ e_pc = "idle"
    /\ LET loaded == IF continue_enrichment /\ enriched_file # Absent
                     THEN enriched_file.content ELSE <<>>
       IN  /\ enriched_reviews' = loaded
           /\ remaining_reviews' = Remaining(reviews, loaded)
    /\ e_pc' = "loop"
    /\ UNCHANGED <<reviews, continue_enrichment, enriched_file, e_returned, nonenrich>>

\* Lines 117-144: the answer parses; the enriched comment is appended and
\* the whole list is written to the output file.
EClassified ==
    /\ e_pc = "loop"
    /\ remaining_reviews # <<>>
    /\ enriched_reviews' = Append(enriched_reviews, Entry(Head(remaining_reviews), TRUE))
    /\ enriched_file' = File(enriched_reviews')
    /\ remaining_reviews' = Tail(remaining_reviews)
    /\ UNCHANGED <<e_pc, reviews, continue_enrichment, e_returned, nonenrich>>

\* Lines 146-150: json.loads raises JSONDecodeError; the original comment is
\* appended, nothing is written.
EUnparsable ==
    /\ e_pc = "loop"
    /\ remaining_reviews # <<>>
    /\ enriched_reviews' = Append(enriched_reviews, Entry(Head(remaining_reviews), FALSE))
    /\ remaining_reviews' = Tail(remaining_reviews)
    /\ UNCHANGED <<e_pc, reviews, continue_enrichment, enriched_file, e_returned,
                   nonenrich>>

\* Lines 152-155: the call to the classifier raises; the original comment is
\* appended, nothing is written.
EApiError ==
    /\ e_pc = "loop"
    /\ remaining_reviews # <<>>
    /\ enriched_reviews' = Append(enriched_reviews, Entry(Head(remaining_reviews), FALSE))
    /\ remaining_reviews' = Tail(remaining_reviews)
    /\ UNCHANGED <<e_pc, reviews, continue_enrichment, enriched_file, e_returned,
                   nonenrich>>

\* Lines 160-161: the loop is over; return enriched_reviews.
EReturn ==
    /\ e_pc = "loop"
    /\ remaining_reviews = <<>>
    /\ e_returned' = enriched_reviews
    /\ e_pc' = "done"
    /\ UNCHANGED <<reviews, continue_enrichment, enriched_file, enriched_reviews,
                   remaining_reviews, nonenrich>>

NextEnrich ==
    \/ EInputUnreadable
    \/ EStart
    \/ EClassified
    \/ EUnparsable
    \/ EApiError
    \/ EReturn

SpecEnrich == InitEnrich /\ [][NextEnrich]_vars

\* ------------------------------------------------------------ both entry points
\* A process that calls collect_comments, or one that calls find_experts.
InitProtocols == Init \/ InitExperts

NextProtocols == Next \/ NextExperts

SpecProtocols == InitProtocols /\ [][NextProtocols]_vars

\* ============================================================ claims
InCall == pc \in Running \cup {"done"}

Resuming == continue_crawl /\ ~get_all_historical

\* C1: every invocation of collect_comments issues finitely many primary
\* fetches and then returns (directly or through the fallback): whenever the
\* invocation is in its primary fetch loop, it eventually leaves it.
C1_PrimaryLoopEnds == (pc = "gql") ~> (pc # "gql")

\* C2: at every moment of a harvest that continues from a previous run
\* (continuation, no full rescan) the output file still contains every item it
\* contained when the harvest started.
C2_FileKeepsItems ==
    (InCall /\ Resuming) => Range(file_at_start) \subseteq Range(output_file.content)

\* C3: the cursor is persisted only after the items of its page are saved:
\* a step that writes a page's end cursor to the state file leaves every item
\* accepted from that page in the output file.
C3_CursorAfterItems ==
    [][state_file' # state_file =>
         {all_comments'[i] : i \in (Len(all_comments) + 1)..Len(all_comments')}
             \subseteq Range(output_file'.content)]_vars

C5_RotateRotateFallback ==
    ( /\ ntokens = 2
      /\ Len(trace) >= 3
      /\ trace[1].resp = "rate_limited"
      /\ trace[2].resp = "rate_limited"
      /\ trace[3].resp = "network_error" )
    => ( /\ trace[1].act = "rotate"
         /\ trace[2].act = "rotate"
         /\ trace[3].act = "fallback" )

\* C6: when the very first primary fetch returns an error payload that is not
\* a rate limit, collect_comments terminates at once: no rotation, no retry,
\* no fallback, no item merged.
C6_FatalStopsAtOnce ==
    (pc # "idle" /\ Len(trace) >= 1 /\ trace[1].resp = "api_error")
    => ( /\ pc \in {"save", "done"}
         /\ Len(trace) = 1
         /\ trace[1].act \notin {"rotate", "fallback"}
         /\ path = "gql"
         /\ merged = {} )

\* C7: without full rescan the list returned by collect_comments never has
\* more than `limit` items.
C7_AtMostLimit ==
    (pc = "done" /\ ~get_all_historical) => Len(returned) <= limit

\* C8: on the primary path without full rescan no comment_url appears twice in
\* the returned list, whether it was delivered on two pages or was among the
\* persisted items loaded on resume.
C8_PrimaryNoDuplicate ==
    (pc = "done" /\ path = "gql" /\ ~get_all_historical) => NoDup(returned)

\* C9: on the fallback path without full rescan the returned list never
\* contains two items with the same comment_url.
C9_FallbackNoDuplicate ==
    (pc = "done" /\ path \in {"rest", "fallback"} /\ ~get_all_historical)
    => NoDup(returned)

\* C10: the items the primary path merged during the invocation are part of
\* the returned list and of the output file when the invocation returns, also
\* after a switch to the fallback protocol.
C10_MergedItemsKept ==
    pc = "done" => ( /\ merged \subseteq Range(returned)
                     /\ merged \subseteq Range(output_file.content) )

\* C11: when primary failures raised as exceptions have used up the rotation
\* budget, the fallback protocol is invoked before collect_comments returns:
\* a step that rotates the credential and leaves the primary fetch loop
\* enters the fallback, never the final save of the primary's partial result.
C11_ExhaustedTriesFallback ==
    [][(pc = "gql" /\ pc' \notin {"gql", "idle"}
            /\ current_token_index' # current_token_index)
           => path' = "fallback"]_vars

\* C12: with several targets harvested concurrently, the credential of the
\* primary client is not changed under a running target that is not itself
\* rotating (so its later fetches use the credential of its earlier ones), and
\* no target fetches while the primary client and the fallback client hold
\* different credentials.
C12_RotationIsLocal ==
    [][\A u \in Targets :
          /\ (tpc[u] \in {"fetch", "wait"} /\ tpc'[u] = tpc[u])
                => api_token' = api_token
          /\ (tpc[u] = "fetch" /\ tpc'[u] = "wait")
                => api_token = rest_token]_vars

\* C13: the active set never holds more than max_concurrent_tasks targets and
\* is the set of targets admitted and not yet through collection, enrichment
\* and embedding; a target is admitted only while the set is below the
\* ceiling, and leaves it only when its last stage has finished or failed.
C13_ActiveBounded ==
    /\ [](/\ Cardinality(active_tasks) <= max_concurrent_tasks
          /\ active_tasks = {u \in Targets : stage[u] \in InFlight})
    /\ [][\A u \in Targets :
            /\ (u \notin active_tasks /\ u \in active_tasks')
                  => Cardinality(active_tasks) < max_concurrent_tasks
            /\ (u \in active_tasks /\ u \notin active_tasks')
                  => stage'[u] \in {"finished", "failed"}]_vars

\* C13 happens: with a ceiling of 1 and more targets than that, a target is
\* in the active set and another has been through it and left.
C13_Witness ==
    /\ max_concurrent_tasks = 1
    /\ Cardinality(active_tasks) = 1
    /\ \E u \in Targets : stage[u] \in {"finished", "failed"}

\* C14: a crash during a write of a file leaves the file holding either its
\* complete previous content or its complete new content.
C14_WriteAtomic ==
    w_pc = "crashed" => w_disk \in {w_old, File(Encode(w_new))}

\* C17: one call of the transport sends at most one network request, whatever
\* the response.
C17_OneRequestPerCall == t_requests <= 1

\* C15: when the write of the state file fails after a page has been merged,
\* the harvest stops: that fetch is followed by no rotation, no switch to the
\* fallback and no further fetch.
C15_WriteFailureStops ==
    \A i \in 1..Len(trace) :
        trace[i].resp = "write_error"
        => /\ trace[i].act \notin {"rotate", "fallback"}
           /\ i = Len(trace)
           /\ pc \notin {"gql", "rest", "merge"}

\* C16: a rotation never leaves the pool: with one credential the index and
\* both clients stay as they are and the failure leads to the fallback;
\* otherwise the index becomes (index + 1) mod N and both clients use the
\* credential at that index; the index is always in 0..N-1.
C16_RotateContract ==
    [][pc' # "idle" =>
        /\ current_token_index' \in 0..(ntokens - 1)
        /\ api_token' = current_token_index'
        /\ rest_token' = current_token_index'
        /\ ntokens <= 1 => current_token_index' = current_token_index
        /\ current_token_index' # current_token_index
           => current_token_index' = (current_token_index + 1) % ntokens
        /\ token_rotation_attempts' > token_rotation_attempts
           => /\ ntokens > 1
              /\ current_token_index' = (current_token_index + 1) % ntokens]_vars

C16_Witness ==
    /\ ntokens = 2
    /\ pc = "gql"
    /\ token_rotation_attempts = 2
    /\ current_token_index = 0

\* C18: an empty page answered to the first fetch of a harvest, made with the
\* null cursor, is not the end of data: the credential is rotated and the fetch
\* is made again, or the fallback takes over when there is one credential.
C18_EmptyFirstPageRetried ==
    (Len(trace) >= 1 /\ trace[1].resp = "empty_page" /\ trace[1].after = None)
    => /\ trace[1].act = IF ntokens > 1 THEN "rotate" ELSE "fallback"
       /\ trace[1].act = "fallback" => path = "fallback"
       /\ (Len(trace) = 1 /\ trace[1].act = "rotate")
          => (pc = "gql" /\ current_token_index = 1)

C18_Witness ==
    /\ Len(trace) = 2
    /\ trace[1].resp = "empty_page" /\ trace[1].after = None
    /\ trace[1].act = "rotate"
    /\ trace[2].resp = "page"

\* C19: an empty page answered to a fetch made with a non-null cursor ends the
\* harvest: no rotation, no fallback and no further fetch follow it.
C19_EmptyLaterPageEnds ==
    \A i \in 1..Len(trace) :
        (trace[i].resp = "empty_page" /\ trace[i].after # None)
        => /\ trace[i].act = "stop"
           /\ i = Len(trace)

\* C20: with a full rescan the primary path starts from nothing: null cursor,
\* empty seen-key set, no item, whatever the two files hold.
C20_RescanLoadsNothing ==
    [][(pc \in {"idle", "done"} /\ pc' \in {"gql", "save"} /\ get_all_historical')
        => /\ after' = None
           /\ processed_comments' = {}
           /\ all_comments' = <<>>]_vars

C20_Witness ==
    /\ pc = "gql"
    /\ get_all_historical /\ continue_crawl
    /\ output_file # Absent /\ output_file.content # <<>>
    /\ state_file # Absent
    /\ after = None /\ all_comments = <<>> /\ token_rotation_attempts = 0

\* C21: a fetch that failed and led to a rotation is separated from the next
\* fetch by a wait.
C21_BackoffBeforeRetry ==
    \A i \in 1..(Len(trace) - 1) :
        trace[i].act = "rotate" => trace[i].sleep > 0

\* C22: what collect_comments returns tells the caller why the harvest
\* ended: two invocations that ended for different reasons never return the
\* same value.
C22_ResultTellsReason ==
    (pc = "done" /\ last # NoResult /\ returned = last.ret) => why = last.why

\* s is the beginning of t.
IsPrefix(s, t) == Len(s) <= Len(t) /\ SubSeq(t, 1, Len(s)) = s

C24_AllRecordedOnce ==
    rp = "returned" =>
        /\ \A u \in Targets : stage[u] \in {"finished", "failed"}
        /\ results.experts_processed + results.experts_failed = NTargets
        /\ results.experts_processed = Len(results.successful_experts)
        /\ results.experts_failed = Len(results.failed_experts)
        /\ \A u \in Targets :
             /\ stage[u] = "finished" <=> u \in Range(results.successful_experts)
             /\ stage[u] = "failed" <=> u \in Range(results.failed_experts)
        /\ NoDup(results.successful_experts \o results.failed_experts)

C24_Witness ==
    /\ rp = "returned"
    /\ results.experts_processed = 1
    /\ results.experts_failed = 1
    /\ results.failed_experts = <<1>>

\* An item the harvest may accept: written by the target user and valid.
Acceptable(c) == ByUser(c) /\ is_valid_comment(c)

\* C25: every item a harvest adds is by the target user and valid; an item
\* that fails either test is in no list, in no file and not in the seen-key
\* set, on either protocol.
C25_OnlyAcceptableItems ==
    \A c \in Range(all_comments) \cup processed_comments \cup Range(rest_comments)
             \cup Range(returned) \cup Range(output_file.content) \cup merged :
        Acceptable(c)

\* A page with a comment by somebody else and an invalid comment was merged.
C25_Witness ==
    /\ pc = "gql"
    /\ all_comments = <<11, 12>>
    /\ processed_comments = {11, 12}
    /\ \E i \in DOMAIN ThreadsOf(1)[1] : ~ByUser(ThreadsOf(1)[1][i])
    /\ \E i \in DOMAIN ThreadsOf(1)[1] : ~is_valid_comment(ThreadsOf(1)[1][i])

\* C26: find_experts returns at most max_users entries, in order of
\* non-increasing score, on the primary path and on the fallback path.
C26_AtMostMaxUsersSorted ==
    x_pc = "done" =>
        /\ Len(experts) <= max_users
        /\ \A i \in 1..(Len(experts) - 1) : Score(experts[i]) >= Score(experts[i + 1])

\* The list was built in another order than the one returned, on the
\* fallback path.
C26_Witness ==
    /\ x_pc = "done"
    /\ x_path = "fallback"
    /\ Len(experts) = MaxUsers
    /\ experts # found

\* C27: the list find_experts returns never has two entries with the same
\* login.
C27_NoLoginTwice == x_pc = "done" => NoDup(experts)

\* C28: with a pool of exactly one credential, a primary fetch that fails
\* (network error, status other than 200, malformed response, error payload
\* without data, empty first page) hands the target to the fallback protocol:
\* that fetch is the last primary fetch of the invocation, nothing is rotated,
\* the fallback is entered once, and what the invocation returns is what the
\* fallback saved.
PrimaryFailure(e) ==
    \/ e.resp \in {"network_error", "no_data", "api_error", "null_data", "bad_node"}
    \/ e.resp = "empty_page" /\ e.after = None

C28_OneCredentialFallsBackOnce ==
    ntokens = 1 =>
      \A i \in 1..Len(trace) :
        PrimaryFailure(trace[i])
        => /\ trace[i].act = "fallback"
           /\ i = Len(trace)
           /\ \A j \in 1..Len(trace) : trace[j].act # "rotate"
           /\ \A j \in 1..Len(trace) : trace[j].act = "fallback" => j = i
           /\ token_rotation_attempts = 0
           /\ current_token_index = 0
           /\ path = "fallback"
           /\ pc \in {"rest", "merge", "done"}
           /\ pc = "done" => returned = FileItems(output_file)

C28_Witness ==
    /\ ntokens = 1
    /\ Len(trace) = 2
    /\ trace[1].resp = "page" /\ trace[1].act = "page"
    /\ trace[2].resp = "network_error" /\ trace[2].act = "fallback"
    /\ path = "fallback"
    /\ pc = "done"
    /\ returned # <<>>

\* C29: a primary fetch that delivers no usable page (network error, error
\* payload, malformed response, empty page) and is answered by a rotation
\* leaves the cursor and the merged items as they were: the next fetch asks
\* for the same page, holding the same items.
Unusable(e) ==
    e.resp \in {"network_error", "no_data", "rate_limited", "api_error",
                "null_data", "bad_node", "empty_page"}

C29_FailedFetchKeepsCursor ==
    \A i \in 1..(Len(trace) - 1) :
        (Unusable(trace[i]) /\ trace[i].act = "rotate")
        => /\ trace[i + 1].after = trace[i].after
           /\ trace[i + 1].held = trace[i].held

\* C30: on the fallback path a search request that met a status other than
\* 200 does not end the harvest the way an empty page does: when the loop is
\* left after such a request, it is left as an error.
C30_BadStatusIsNotEndOfData ==
    (pc = "merge" /\ search_status = "not_200") => why = "error"

\* C31: an invocation that continues without full rescan and finds at least
\* `limit` persisted items issues no fetch on either protocol and returns
\* exactly the persisted list, which is also what the output file holds.
Satisfied == InCall /\ Resuming /\ Len(file_at_start) >= limit

OnFallbackProtocol == pc \in {"rest", "merge", "done"}

NoPrimaryState ==
    /\ token_rotation_attempts = 0
    /\ all_comments = <<>> /\ processed_comments = {} /\ after = None

C32_Inv ==
    /\ (use_rest_api /\ InCall) => path = "rest"
    /\ (path = "rest" /\ InCall) => (OnFallbackProtocol /\ NoPrimaryState /\ merged = {})
    /\ path = "fallback" => (OnFallbackProtocol /\ NoPrimaryState)
    /\ x_path = "rest"
       => /\ x_pc \in {"rest", "done"}
          /\ fetched = 0 /\ round = 0 /\ after_cursor = None /\ x_attempts = 0
    /\ x_path = "fallback" => x_pc \in {"rest", "done"}

C32_Step ==
    /\ (path \in {"rest", "fallback"} /\ pc \in Running)
       => /\ pc' # "gql"
          /\ path' = path \/ pc' = "idle"
          /\ UNCHANGED <<token_rotation_attempts, all_comments, processed_comments,
                         after, state_file, merged>> \/ pc' = "idle"
    /\ x_path \in {"rest", "fallback"}
       => /\ x_path' = x_path
          /\ x_pc' # "gql"
          /\ UNCHANGED <<fetched, round, after_cursor, x_attempts>>

C32_ProtocolSwitchOneWay == []C32_Inv /\ [][C32_Step]_vars

C32_Witness ==
    /\ path = "fallback"
    /\ pc = "done"
    /\ merged # {}
    /\ returned # <<>>

\* C33: on the fallback path a search that fails with a network error adds
\* one to the count of consecutive errors and leaves the page number and the
\* collected items alone; the harvest goes on below 3 consecutive errors and
\* is aborted at the third; any search that was answered resets the count;
\* the aborted harvest saves and returns the items collected so far (as far
\* as the limit allows).
AbortedOnErrors ==
    pc = "merge" /\ search_status = "unreachable"
                 /\ consecutive_errors = max_consecutive_errors

C33_Inv ==
    /\ pc = "rest" => consecutive_errors < max_consecutive_errors
    /\ (pc \in {"rest", "merge"} /\ search_status \in {"200", "not_200"})
       => consecutive_errors = 0
    /\ (pc = "merge" /\ search_status = "unreachable") => AbortedOnErrors

C33_Step ==
    /\ (pc = "rest" /\ search_status' = "unreachable")
       => /\ consecutive_errors' = consecutive_errors + 1
          /\ UNCHANGED <<page, rest_comments, existing_comments, output_file>>
          /\ pc' = IF consecutive_errors' >= 3 THEN "merge" ELSE "rest"
    /\ (AbortedOnErrors /\ pc' = "done")
       => /\ returned' = FileItems(output_file')
          /\ output_file'.exists
          /\ \/ Range(rest_comments) \subseteq Range(returned')
             \/ ~get_all_historical /\ Len(returned') = limit

C33_AbortAfterThreeErrors == []C33_Inv /\ [][C33_Step]_vars

C33_Witness ==
    /\ AbortedOnErrors
    /\ page = 2
    /\ rest_comments # <<>>
    /\ why = "error"

\* C34: after expert discovery in run_pipeline the experts file holds every
\* newly found expert and every previously persisted expert, each login
\* once: no persisted expert disappears, also when nothing was found.
C34_ExpertsFileKeepsAll ==
    d_pc \in {"chosen", "scheduled"}
    => /\ Range(experts_file) = Range(new_experts_data) \cup Range(existing_experts)
       /\ NoDup(experts_file)

\* C35: an expert that is persisted but is not in the current list is
\* scheduled for a new harvest exactly when its persisted comment count is
\* lower than the comment limit.
C35_RecrawlBelowLimit ==
    d_pc = "scheduled"
    => \A u \in Range(existing_experts) \ Range(expert_usernames) :
         u \in experts_to_process <=> comment_count[u] < comment_limit

\* C36: during enrich_comments, after each comment has been handled, with
\* its classification or without, the output file contains every comment
\* handled so far; when enrich_comments returns, the output file holds the
\* returned list (the return of [] for an unreadable input is left aside).
C36_OutputFileFollows ==
    /\ e_pc = "loop" => Range(enriched_reviews) \subseteq Range(FileItems(enriched_file))
    /\ e_pc = "done" => FileItems(enriched_file) = e_returned

====
